---- MODULE Spec2Model ----
(***************************************************************************)
(* Model of app/static/js/voice.js: the speech-recognition session         *)
(* controller (continuous / wake_word / push-to-talk), its wake-word       *)
(* window, the transcript debounce, the auto-restart policy and the        *)
(* one-shot listener.                                                      *)
(*                                                                         *)
(* Strings are sequences of one-character strings.  The browser's          *)
(* SpeechRecognition engine and the timer queue are the environment: the   *)
(* engine delivers start/result/error/end callbacks nondeterministically,  *)
(* a timer fires once its delay has elapsed.  Time is kept relative: a     *)
(* timer carries the delay it has left, and sentAgo is Date.now() -        *)
(* lastSentAt, the only way the code reads the clock.                      *)
(***************************************************************************)
EXTENDS Integers, Sequences, FiniteSets, TLC

\* ------------------------------------------------------------------ bounds
TickMs == 1200
MaxRestartTimers == 1

\* ------------------------------------------------------- program constants
SEND_DEBOUNCE_MS == 1200
WAKE_WORD_TIMEOUT == 5000
END_RESTART_MS == 200
ERROR_RESTART_MS == 400
SETTLE_MS == 150
DEFAULT_TIMEOUT_MS == 6000
HARDWARE_TIMEOUT_MS == 7000

\* the two hardware trigger sources, each running listenOnceSmart
Calls == {"mediaSession", "keydown"}

Modes == {"off", "continuous", "wake_word", "ptt"}

\* window.WAKE_WORD, configured here as the two-letter phrase "hb"
wakeWord == <<"h", "b">>

Null == <<"null">>
Undefined == <<"undefined">>

\* --------------------------------------------------------- string functions
lowercase(s) == [i \in DOMAIN s |-> IF s[i] = "H" THEN "h"
                                    ELSE IF s[i] = "A" THEN "a" ELSE s[i]]

RECURSIVE TrimLeft(_)
TrimLeft(s) == IF s # <<>> /\ Head(s) = " " THEN TrimLeft(Tail(s)) ELSE s

RECURSIVE TrimRight(_)
TrimRight(s) == IF s # <<>> /\ s[Len(s)] = " "
                THEN TrimRight(SubSeq(s, 1, Len(s) - 1)) ELSE s

TrimNothing(s) == s

Trim(s) == TrimRight(TrimLeft(s))

MatchesAt(s, w, i) == /\ i + Len(w) - 1 <= Len(s)
                      /\ \A k \in 1..Len(w) : s[i + k - 1] = w[k]

\* String.prototype.indexOf, zero-based, -1 when absent
IndexOf(s, w) == IF \E i \in 1..Len(s) : MatchesAt(s, w, i)
                 THEN (CHOOSE i \in 1..Len(s) :
                          /\ MatchesAt(s, w, i)
                          /\ \A j \in 1..(i - 1) : ~MatchesAt(s, w, j)) - 1
                 ELSE -1

Includes(s, w) == IndexOf(s, w) >= 0

\* String.prototype.slice(k), zero-based start
Slice(s, k) == SubSeq(s, k + 1, Len(s))

\* replace(/^[,:\s]+/, '')
RECURSIVE StripLead(_)
StripLead(s) == IF s # <<>> /\ Head(s) \in {",", ":", " "}
                THEN StripLead(Tail(s)) ELSE s

RemainderKeepSeparator(t) ==
    LET ww == lowercase(wakeWord)
        idx == IndexOf(lowercase(t), ww)
    IN  IF idx >= 0 THEN Trim(Slice(t, idx + Len(ww))) ELSE t

\* originalRemainder of a final result that contains the wake word
Remainder(t) ==
    LET ww == lowercase(wakeWord)
        idx == IndexOf(lowercase(t), ww)
    IN  IF idx >= 0 THEN Trim(StripLead(Slice(t, idx + Len(ww)))) ELSE t

ShouldEmitAlways(text, lastT, elapsed) == TRUE

\* the debounce test: text !== lastTranscript || (now - lastSentAt) > SEND_DEBOUNCE_MS
\* with elapsed = now - lastSentAt
ShouldEmit(text, lastT, elapsed) ==
    text # lastT \/ elapsed > SEND_DEBOUNCE_MS

\* ------------------------------------------------------ transcripts offered
WakeForms == { <<"h", "b">>, <<"H", "b">> }
Separators == { <<",", " ">>, <<" ">> }
Commands == { <<"a">>, <<"A">> }

\* e.results[i][0].transcript as the continuous engine delivers it:
\* "Hb, a", "hb", "a", " A " and " "
Utterances == { <<"H", "b", ",", " ", "a">>,
                <<"h", "b">>,
                <<"a">>,
                <<" ", "A", " ">>,
                <<" ">> }

Results == [transcript : Utterances, isFinal : BOOLEAN]

\* e.results from e.resultIndex on: one result, or two of which the last
\* is final
Batches == { <<r>> : r \in Results } \cup
           { <<r1, r2>> : r1 \in Results,
                          r2 \in { r \in Results : r.isFinal } }

\* the transcript a one-shot session delivers: " a ", " " or none
OneShotResults == { <<" ", "a", " ">>, <<" ">>, Undefined }

VARIABLES supportsSR, recognizing, active, userStopped, rec, voiceMode,
          wakeWordActive, wakeWordTimeout, continuousEnabled,
          lastTranscript, sentAgo,
          timers, recState, call,
          lastEmit, stopLatest, ev

vars == <<supportsSR, recognizing, active, userStopped, rec, voiceMode,
          wakeWordActive, wakeWordTimeout, continuousEnabled,
          lastTranscript, sentAgo,
          timers, recState, call,
          lastEmit, stopLatest, ev>>

\* ------------------------------------------------------------------- time
\* an elapsed time beyond the debounce window: all such are alike
Saturate(ms) == IF ms > SEND_DEBOUNCE_MS THEN SEND_DEBOUNCE_MS + 1 ELSE ms

Elapse(ms) == Saturate(ms + TickMs)

\* setTimeout: a handle that tells the new timer from the pending timers of
\* its kind
NewId(tms, kind) ==
    CHOOSE n \in 1..(Cardinality(tms) + 1) :
       /\ \A tm \in tms : tm.kind = kind => tm.id # n
       /\ \A m \in 1..(n - 1) : \E tm \in tms : tm.kind = kind /\ tm.id = m

Timer(tms, kind, delay, p) ==
    [id |-> NewId(tms, kind), kind |-> kind, left |-> delay, p |-> p]

ClearTimeoutKeepsTimer(tms, handle) == tms

\* clearTimeout(wakeWordTimeout): the handle is that of a wake-word timer
ClearTimeout(tms, handle) ==
    { tm \in tms : ~(tm.kind = "wake" /\ tm.id = handle) }

Due(tm) == tm.left = 0

RestartTimers(tms) == { tm \in tms : tm.kind = "restart" }
WakeTimers(tms) == { tm \in tms : tm.kind = "wake" }
OnceTimers(tms, p) == { tm \in tms : tm.kind = "once" /\ tm.p = p }

\* -------------------------------------------------------------- the engine
\* SpeechRecognition.start(): throws (swallowed) unless the session is idle
EngineStart(st) == IF st = "idle" THEN "starting" ELSE st

\* SpeechRecognition.stop(): no effect unless the session is started
EngineStop(st) == IF st \in {"starting", "listening"} THEN "stopping" ELSE st

\* ------------------------------------------- what a step shows the outside
Status(l, m, w) == [listening |-> l, mode |-> m, wakeWordActive |-> w]
NoStatus == [listening |-> FALSE, mode |-> "none", wakeWordActive |-> FALSE]

None == <<"-">>

\* ev: the operation or callback that ran last, the caller it belongs to,
\* the transcript the engine handed it, the value a promise was resolved
\* with or a function returned, the last voice.status it dispatched and the
\* voice.transcript events it dispatched
Event(op, p, arg, ret, status, out) ==
    [op |-> op, p |-> p, arg |-> arg, ret |-> ret, status |-> status,
     out |-> out]

\* a voice.transcript event with the path and the raw engine transcript it
\* came from; repeat tells that the event dispatched before it carried the
\* same transcript no longer ago than the debounce window, heard that the
\* wake word was in this result or in an earlier result of its batch
Entry(text, via, raw, branch, prev) ==
    [transcript |-> text, via |-> via, raw |-> raw, branch |-> branch,
     repeat |-> (prev.transcript = text /\ prev.ago <= SEND_DEBOUNCE_MS),
     heard |-> FALSE]

Emitted(text) == [transcript |-> text, ago |-> 0]

IdleCall == [pc |-> "idle", smart |-> FALSE, currentMode |-> "off",
             shouldResume |-> FALSE, wasContinuousActive |-> FALSE,
             timeoutMs |-> 0, done |-> FALSE, one |-> "none",
             resolved |-> 0]

Init ==
    /\ supportsSR \in BOOLEAN
    /\ recognizing = FALSE
    /\ active = FALSE
    /\ userStopped = FALSE
    /\ rec = FALSE
    /\ voiceMode = "off"
    /\ wakeWordActive = FALSE
    /\ wakeWordTimeout = 0
    /\ continuousEnabled = FALSE
    /\ lastTranscript = <<>>
    /\ sentAgo = Saturate(SEND_DEBOUNCE_MS + 1)
    /\ timers = {}
    /\ recState = "idle"
    /\ call = [p \in Calls |-> IdleCall]
    /\ lastEmit = [transcript |-> <<>>, ago |-> Saturate(SEND_DEBOUNCE_MS + 1)]
    /\ stopLatest = FALSE
    /\ ev = Event("init", "-", None, None, NoStatus, <<>>)

\* ------------------------------------------------------- rec.onresult
\* notifyStatus() inside the result handler
Notify(h) ==
    [h EXCEPT !.status = Status(recognizing, voiceMode, h.wakeWordActive)]

\* lines 70-74, 83-87, 101-105, 112-116: debounce, record, dispatch
EmitIfNew(h, text, via, raw, branch) ==
    IF ShouldEmit(text, h.lastTranscript, h.sentAgo)
    THEN [h EXCEPT !.lastTranscript = text,
                   !.sentAgo = 0,
                   !.out = Append(@, [Entry(text, via, raw, branch, h.lastEmit)
                                         EXCEPT !.heard = h.heard]),
                   !.lastEmit = Emitted(text)]
    ELSE h

\* wakeWordActive = false; clearTimeout(wakeWordTimeout); notifyStatus()
CloseWindow(h) ==
    Notify([h EXCEPT !.wakeWordActive = FALSE,
                     !.timers = ClearTimeout(@, h.wakeWordTimeout)])

\* lines 56-62: open the wake-word window and arm its timer
OpenWindow(h) ==
    LET cleared == ClearTimeout(h.timers, h.wakeWordTimeout)
        tm == Timer(cleared, "wake", WAKE_WORD_TIMEOUT, "-")
    IN  Notify([h EXCEPT !.wakeWordActive = TRUE,
                         !.timers = cleared \cup {tm},
                         !.wakeWordTimeout = tm.id])

\* lines 53-91
WakeWordBranch(h, r) ==
    LET t == Trim(r.transcript)
        hasWake == Includes(lowercase(t), lowercase(wakeWord))
    IN  IF hasWake /\ ~h.wakeWordActive
        THEN LET h1 == OpenWindow(h)
                 rem == Remainder(t)
             IN  IF r.isFinal /\ rem # <<>>
                 THEN CloseWindow(EmitIfNew(h1, rem, "wake_word",
                                            r.transcript, "remainder"))
                 ELSE h1
        ELSE IF h.wakeWordActive /\ r.isFinal
        THEN CloseWindow(IF t # <<>>
                         THEN EmitIfNew(h, t, "wake_word",
                                        r.transcript, "command")
                         ELSE h)
        ELSE h

\* lines 92-120; brk records the break out of the batch loop
ContinuousBranch(h, r) ==
    LET t == Trim(r.transcript)
        hasWake == Includes(lowercase(t), lowercase(wakeWord))
    IN  IF ~h.active
        THEN IF hasWake
             THEN IF r.isFinal
                  THEN LET rem == Remainder(t)
                           h1 == IF rem # <<>>
                                 THEN EmitIfNew(h, rem, "continuous",
                                                r.transcript, "remainder")
                                 ELSE h
                       IN  [h1 EXCEPT !.active = FALSE, !.brk = TRUE]
                  ELSE [h EXCEPT !.active = TRUE]
             ELSE h
        ELSE IF r.isFinal
        THEN LET h1 == IF t # <<>>
                       THEN EmitIfNew(h, t, "continuous",
                                      r.transcript, "command")
                       ELSE h
             IN  [h1 EXCEPT !.active = FALSE, !.brk = TRUE]
        ELSE h

ProcessResultAnyMode(h, r) ==
    LET hasWake == Includes(lowercase(Trim(r.transcript)), lowercase(wakeWord))
        h1 == [h EXCEPT !.heard = @ \/ hasWake]
    IN  IF voiceMode = "wake_word" THEN WakeWordBranch(h1, r)
        ELSE ContinuousBranch(h1, r)

\* the body of the for loop, lines 45-121
ProcessResult(h, r) ==
    LET hasWake == Includes(lowercase(Trim(r.transcript)), lowercase(wakeWord))
        h1 == [h EXCEPT !.heard = @ \/ hasWake]
    IN  IF voiceMode = "wake_word" THEN WakeWordBranch(h1, r)
        ELSE IF voiceMode = "continuous" THEN ContinuousBranch(h1, r)
        ELSE h1

LoopEndsAtLength(h, batch, i) == i > Len(batch)

\* the for loop is left at i = e.results.length (line 45) or by the break of
\* lines 107 and 118
LoopEnds(h, batch, i) == i > Len(batch) \/ h.brk

RECURSIVE RunBatch(_, _, _)
RunBatch(h, batch, i) ==
    IF LoopEnds(h, batch, i) THEN h
    ELSE RunBatch(ProcessResult(h, batch[i]), batch, i + 1)

HandlerState ==
    [active |-> active, wakeWordActive |-> wakeWordActive,
     wakeWordTimeout |-> wakeWordTimeout, timers |-> timers,
     lastTranscript |-> lastTranscript, sentAgo |-> sentAgo,
     lastEmit |-> lastEmit, out |-> <<>>, status |-> NoStatus, brk |-> FALSE,
     heard |-> FALSE]

\* rec.onresult handed the results batch; seen is what the step keeps on
\* record of them in ev.arg
OnResult(batch, seen) ==
    /\ rec
    /\ recState \in {"listening", "stopping"}
    /\ \E h \in {RunBatch(HandlerState, batch, 1)} :
           /\ active' = h.active
           /\ wakeWordActive' = h.wakeWordActive
           /\ wakeWordTimeout' = h.wakeWordTimeout
           /\ timers' = h.timers
           /\ lastTranscript' = h.lastTranscript
           /\ sentAgo' = h.sentAgo
           /\ lastEmit' = h.lastEmit
           /\ ev' = Event("rec.onresult", "-", seen, None, h.status, h.out)
    /\ UNCHANGED <<supportsSR, recognizing, userStopped, rec, voiceMode,
                   continuousEnabled, recState, call, stopLatest>>

RecOnResult(batch) == OnResult(batch, None)

\* ------------------------------------------- rec.onstart / onend / onerror
ShouldRestartAlways(enabled, stopped) == TRUE
ShouldRestartNever(enabled, stopped) == FALSE

\* lines 127, 131: continuousEnabled && !userStopped
ShouldRestart(enabled, stopped) == enabled /\ ~stopped

RecOnStart ==
    /\ rec
    /\ recState = "starting"
    /\ recState' = "listening"
    /\ recognizing' = TRUE
    /\ ev' = Event("rec.onstart", "-", None, None,
                   Status(TRUE, voiceMode, wakeWordActive), <<>>)
    /\ UNCHANGED <<supportsSR, active, userStopped, rec, voiceMode,
                   wakeWordActive, wakeWordTimeout, continuousEnabled,
                   lastTranscript, sentAgo, timers, call,
                   lastEmit, stopLatest>>

\* the session ends by itself, or after stop() or an error
RecOnEnd ==
    /\ rec
    /\ recState \in {"listening", "stopping"}
    /\ recState' = "idle"
    /\ recognizing' = FALSE
    /\ IF ShouldRestart(continuousEnabled, userStopped)
       THEN /\ Cardinality(RestartTimers(timers)) < MaxRestartTimers
            /\ timers' = timers \cup
                 {Timer(timers, "restart",
                        END_RESTART_MS, "-")}
       ELSE timers' = timers
    /\ ev' = Event("rec.onend", "-", None, None,
                   Status(FALSE, voiceMode, wakeWordActive), <<>>)
    /\ UNCHANGED <<supportsSR, active, userStopped, rec, voiceMode,
                   wakeWordActive, wakeWordTimeout, continuousEnabled,
                   lastTranscript, sentAgo, call, lastEmit, stopLatest>>

\* the engine reports an error; its end callback follows
RecOnError ==
    /\ rec
    /\ recState \in {"starting", "listening"}
    /\ IF ShouldRestart(continuousEnabled, userStopped)
       THEN /\ Cardinality(RestartTimers(timers)) < MaxRestartTimers
            /\ timers' = timers \cup
                 {Timer(timers, "restart",
                        ERROR_RESTART_MS, "-")}
       ELSE timers' = timers
    /\ recState' = "stopping"
    /\ ev' = Event("rec.onerror", "-", None, None, NoStatus, <<>>)
    /\ UNCHANGED <<supportsSR, recognizing, active, userStopped, rec,
                   voiceMode, wakeWordActive, wakeWordTimeout,
                   continuousEnabled, lastTranscript, sentAgo, call,
                   lastEmit, stopLatest>>

\* setTimeout(() => { rec && rec.start() }, 200 | 400) fires
RestartFires ==
    \E tm \in timers :
        /\ tm.kind = "restart"
        /\ Due(tm)
        /\ timers' = timers \ {tm}
        /\ recState' = IF rec THEN EngineStart(recState) ELSE recState
        /\ ev' = Event("restart", "-", None, None, NoStatus, <<>>)
        /\ UNCHANGED <<supportsSR, recognizing, active, userStopped, rec,
                       voiceMode, wakeWordActive, wakeWordTimeout,
                       continuousEnabled, lastTranscript, sentAgo,
                       call, lastEmit, stopLatest>>

WakeExpiryKeepsWindow(w) == w

\* lines 58-61: wakeWordActive = false in the timeout callback
WakeExpiry(w) == FALSE

WakeTimeoutFires ==
    \E tm \in timers :
        /\ tm.kind = "wake"
        /\ Due(tm)
        /\ timers' = timers \ {tm}
        /\ wakeWordActive' = WakeExpiry(wakeWordActive)
        /\ ev' = Event("wake.timeout", "-", None, None,
                       Status(recognizing, voiceMode, wakeWordActive'), <<>>)
        /\ UNCHANGED <<supportsSR, recognizing, active, userStopped, rec,
                       voiceMode, wakeWordTimeout, continuousEnabled,
                       lastTranscript, sentAgo, recState, call,
                       lastEmit, stopLatest>>

\* time passes; a due timer runs before more time passes
Tick ==
    /\ \A tm \in timers : ~Due(tm)
    /\ timers' = { [tm EXCEPT !.left = IF @ > TickMs THEN @ - TickMs ELSE 0] :
                   tm \in timers }
    /\ sentAgo' = Elapse(sentAgo)
    /\ lastEmit' = [lastEmit EXCEPT !.ago = Elapse(@)]
    /\ ev' = Event("tick", "-", None, None, NoStatus, <<>>)
    /\ UNCHANGED <<supportsSR, recognizing, active, userStopped, rec,
                   voiceMode, wakeWordActive, wakeWordTimeout,
                   continuousEnabled, lastTranscript, recState, call,
                   stopLatest>>

\* ---------------------------------------------------------- start / stop
\* ensureRecognizer(): if (rec || !supportsSR) return rec; rec = new ...
ensureRecognizer(r) == IF r \/ ~supportsSR THEN r ELSE TRUE

StartGuardMissing(sr) == TRUE

\* line 140: if (!supportsSR) return
StartGuard(sr) == sr

\* the body of start(mode), lines 140-147, applied to the timer set tms
StartBody(mode, tms) ==
    IF StartGuard(supportsSR)
    THEN /\ userStopped' = FALSE
         /\ voiceMode' = mode
         /\ continuousEnabled' = (mode \in {"continuous", "wake_word"})
         /\ wakeWordActive' = FALSE
         /\ timers' = ClearTimeout(tms, wakeWordTimeout)
         /\ rec' = ensureRecognizer(rec)
         /\ recState' = IF rec' THEN EngineStart(recState) ELSE recState
    ELSE /\ timers' = tms
         /\ UNCHANGED <<userStopped, voiceMode, continuousEnabled,
                        wakeWordActive, rec, recState>>

Start(mode) ==
    /\ StartBody(mode, timers)
    /\ stopLatest' = FALSE
    /\ ev' = Event("start", "-", None, None, NoStatus, <<>>)
    /\ UNCHANGED <<supportsSR, recognizing, active, wakeWordTimeout,
                   lastTranscript, sentAgo, call, lastEmit>>

\* window.enableAutoVoice(mode), lines 250-254
EnableAutoVoice(mode) ==
    /\ IF supportsSR
       THEN StartBody(mode, timers)
       ELSE UNCHANGED <<userStopped, voiceMode, continuousEnabled,
                        wakeWordActive, timers, rec, recState>>
    /\ stopLatest' = (~supportsSR /\ stopLatest)
    /\ ev' = Event("enableAutoVoice", "-", None,
                   IF supportsSR THEN <<"true">> ELSE <<"false">>,
                   NoStatus, <<>>)
    /\ UNCHANGED <<supportsSR, recognizing, active, wakeWordTimeout,
                   lastTranscript, sentAgo, call, lastEmit>>

Stop ==
    /\ continuousEnabled' = FALSE
    /\ userStopped' = TRUE
    /\ voiceMode' = "off"
    /\ wakeWordActive' = FALSE
    /\ timers' = ClearTimeout(timers, wakeWordTimeout)
    /\ recState' = IF rec THEN EngineStop(recState) ELSE recState
    /\ stopLatest' = TRUE
    /\ ev' = Event("stop", "-", None, None, NoStatus, <<>>)
    /\ UNCHANGED <<supportsSR, recognizing, active, rec, wakeWordTimeout,
                   lastTranscript, sentAgo, call, lastEmit>>

\* Voice.setMode
SetMode(mode) ==
    /\ voiceMode # mode
    /\ voiceMode' = mode
    /\ ev' = Event("setMode", "-", None, None, NoStatus, <<>>)
    /\ UNCHANGED <<supportsSR, recognizing, active, userStopped, rec,
                   wakeWordActive, wakeWordTimeout, continuousEnabled,
                   lastTranscript, sentAgo, timers, recState, call,
                   lastEmit, stopLatest>>

\* --------------------------------------------- listenOnce / listenOnceSmart
\* (val || '').trim() || null
Normalize(v) == IF v \in {Null, Undefined} THEN Null
                ELSE IF Trim(v) = <<>> THEN Null ELSE Trim(v)

\* the call slot p holds no live one-shot session
Free(p) == call[p] = IdleCall

\* a returned call whose session has ended and whose timer is gone leaves
\* nothing behind
Tidy(c, tms, p) ==
    IF c.pc = "idle" /\ c.one \in {"none", "ended"} /\ OnceTimers(tms, p) = {}
    THEN IdleCall ELSE c

Returned(c) == [c EXCEPT !.pc = "idle", !.smart = FALSE,
                         !.currentMode = "off", !.shouldResume = FALSE,
                         !.wasContinuousActive = FALSE, !.timeoutMs = 0]

\* the caller of listenOnce goes on with the settled value v: a direct
\* caller has it returned, listenOnceSmart runs lines 191-198
Continue(p, c, tms, op, arg, v) ==
    /\ call' = [call EXCEPT ![p] = Tidy(Returned(c), tms, p)]
    /\ IF c.smart /\ v # Null
       THEN /\ ev' = Event(op, p, arg, v, NoStatus,
                           <<Entry(v, "ptt", arg, "ptt", lastEmit)>>)
            /\ lastEmit' = Emitted(v)
       ELSE /\ ev' = Event(op, p, arg, v, NoStatus, <<>>)
            /\ lastEmit' = lastEmit
    /\ IF c.smart /\ c.shouldResume
       THEN /\ StartBody(c.currentMode, tms)
            /\ stopLatest' = FALSE
       ELSE /\ timers' = tms
            /\ UNCHANGED <<userStopped, voiceMode, continuousEnabled,
                           wakeWordActive, rec, recState, stopLatest>>

NotDoneGuardMissing(c) == TRUE

\* line 168: if (done) return
NotDone(c) == ~c.done

\* finish(val) of the one-shot session of call p, called by the callback op
\* that was handed the transcript arg; c is the call record and tms the timer
\* set as that callback left them
Finish(p, c, tms, op, arg, val) ==
    IF NotDone(c)
    THEN LET c1 == [c EXCEPT !.done = TRUE,
                             !.one = IF @ = "listening" THEN "stopping" ELSE @,
                             !.resolved = @ + 1]
         IN  IF c.resolved = 0
             THEN Continue(p, c1, tms, op, arg, Normalize(val))
             ELSE /\ call' = [call EXCEPT ![p] = c1]
                  /\ timers' = tms
                  /\ ev' = Event(op, p, arg, Normalize(val), NoStatus, <<>>)
                  /\ UNCHANGED <<userStopped, voiceMode, continuousEnabled,
                                 wakeWordActive, rec, recState, lastEmit,
                                 stopLatest>>
    ELSE /\ call' = [call EXCEPT ![p] = Tidy(c, tms, p)]
         /\ timers' = tms
         /\ ev' = Event(op, p, arg, None, NoStatus, <<>>)
         /\ UNCHANGED <<userStopped, voiceMode, continuousEnabled,
                        wakeWordActive, rec, recState, lastEmit, stopLatest>>

\* listenOnce(timeoutMs), lines 160-177, entered by the call record c from
\* the operation op; one.start() may throw
Listen(p, c, tms, op) ==
    IF ~supportsSR
    THEN Continue(p, [c EXCEPT !.resolved = 1], tms, op, None, Null)
    ELSE \E ok \in BOOLEAN :
           LET tm == Timer(tms, "once", c.timeoutMs, p)
               c1 == [c EXCEPT !.pc = "listen", !.done = FALSE,
                               !.one = IF ok THEN "listening" ELSE "none"]
           IN  IF ok
               THEN /\ call' = [call EXCEPT ![p] = c1]
                    /\ timers' = tms \cup {tm}
                    /\ ev' = Event(op, p, None, None, NoStatus, <<>>)
                    /\ UNCHANGED <<userStopped, voiceMode, continuousEnabled,
                                   wakeWordActive, rec, recState, lastEmit,
                                   stopLatest>>
               ELSE Finish(p, c1, tms \cup {tm}, op, None, Null)

NewCall(smart, tmo) ==
    [IdleCall EXCEPT !.smart = smart,
                     !.timeoutMs = tmo,
                     !.currentMode = IF smart THEN voiceMode ELSE "off",
                     !.shouldResume = smart /\ continuousEnabled,
                     !.wasContinuousActive =
                         smart /\ continuousEnabled /\ recognizing]

\* Voice.listenOnce called directly
ListenOnce(p) ==
    /\ Free(p)
    /\ Listen(p, NewCall(FALSE, DEFAULT_TIMEOUT_MS), timers, "listenOnce")
    /\ UNCHANGED <<supportsSR, recognizing, active, wakeWordTimeout,
                   lastTranscript, sentAgo>>

\* listenOnceSmart(7000) run by a hardware trigger, lines 181-190
ListenOnceSmart(p) ==
    /\ Free(p)
    /\ IF recognizing
       THEN /\ userStopped' = TRUE
            /\ recState' = IF rec THEN EngineStop(recState) ELSE recState
            /\ timers' = timers \cup
                 {Timer(timers, "settle", SETTLE_MS, p)}
            /\ call' = [call EXCEPT ![p] =
                          [NewCall(TRUE, HARDWARE_TIMEOUT_MS)
                              EXCEPT !.pc = "settle"]]
            /\ ev' = Event("listenOnceSmart", p, None, None, NoStatus, <<>>)
            /\ UNCHANGED <<voiceMode, continuousEnabled, wakeWordActive,
                           rec, lastEmit, stopLatest>>
       ELSE Listen(p, NewCall(TRUE, HARDWARE_TIMEOUT_MS), timers,
                   "listenOnceSmart")
    /\ UNCHANGED <<supportsSR, recognizing, active, wakeWordTimeout,
                   lastTranscript, sentAgo>>

\* the 150 ms settle delay of line 188 is over
SettleFires(p) ==
    \E tm \in timers :
        /\ tm.kind = "settle" /\ tm.p = p
        /\ Due(tm)
        /\ Listen(p, call[p], timers \ {tm}, "settle")
        /\ UNCHANGED <<supportsSR, recognizing, active, wakeWordTimeout,
                       lastTranscript, sentAgo>>

\* one.onresult, lines 170-173
OneOnResult(p, res) ==
    /\ call[p].one \in {"listening", "stopping"}
    /\ Finish(p, call[p], timers \ OnceTimers(timers, p),
              "one.onresult", res, res)
    /\ UNCHANGED <<supportsSR, recognizing, active, wakeWordTimeout,
                   lastTranscript, sentAgo>>

\* one.onerror, line 174; the session's end callback follows
OneOnError(p) ==
    /\ call[p].one = "listening"
    /\ Finish(p, [call[p] EXCEPT !.one = "stopping"],
              timers \ OnceTimers(timers, p), "one.onerror", None, Null)
    /\ UNCHANGED <<supportsSR, recognizing, active, wakeWordTimeout,
                   lastTranscript, sentAgo>>

\* one.onend, line 175
OneOnEnd(p) ==
    /\ call[p].one \in {"listening", "stopping"}
    /\ Finish(p, [call[p] EXCEPT !.one = "ended"], timers,
              "one.onend", None, Null)
    /\ UNCHANGED <<supportsSR, recognizing, active, wakeWordTimeout,
                   lastTranscript, sentAgo>>

\* the timer of line 169 fires
OneTimeout(p) ==
    \E tm \in OnceTimers(timers, p) :
        /\ Due(tm)
        /\ Finish(p, call[p], timers \ {tm}, "one.timeout", None, Null)
        /\ UNCHANGED <<supportsSR, recognizing, active, wakeWordTimeout,
                       lastTranscript, sentAgo>>

\* ----------------------------------------------------------- specification
\* the continuous session: the controller's result handler, the wake-word
\* window and the debounce, over the session's life cycle
SessionNext ==
    \/ \E mode \in Modes : Start(mode)
    \/ \E mode \in Modes : EnableAutoVoice(mode)
    \/ Stop
    \/ \E mode \in Modes : SetMode(mode)
    \/ \E batch \in Batches : RecOnResult(batch)
    \/ RecOnStart
    \/ RecOnEnd
    \/ RecOnError
    \/ RestartFires
    \/ WakeTimeoutFires
    \/ Tick

Spec == Init /\ [][SessionNext]_vars

\* push-to-talk: the hardware triggers and the one-shot listener around the
\* continuous session's life cycle
PttNext ==
    \/ \E mode \in Modes : Start(mode)
    \/ \E mode \in Modes : EnableAutoVoice(mode)
    \/ Stop
    \/ \E mode \in Modes : SetMode(mode)
    \/ ListenOnce("keydown")
    \/ ListenOnceSmart("keydown")
    \/ \E p \in Calls : SettleFires(p)
    \/ \E p \in Calls : \E res \in OneShotResults : OneOnResult(p, res)
    \/ \E p \in Calls : OneOnError(p)
    \/ \E p \in Calls : OneOnEnd(p)
    \/ \E p \in Calls : OneTimeout(p)
    \/ RecOnStart
    \/ RecOnEnd
    \/ RecOnError
    \/ RestartFires
    \/ Tick

PttSpec == Init /\ [][PttNext]_vars

\* both hardware triggers at once, around a session started in continuous
\* mode
RaceNext ==
    \/ Start("continuous")
    \/ Stop
    \/ \E p \in Calls : ListenOnceSmart(p)
    \/ \E p \in Calls : SettleFires(p)
    \/ \E p \in Calls : OneOnResult(p, <<" ", "a", " ">>)
    \/ \E p \in Calls : OneOnError(p)
    \/ \E p \in Calls : OneOnEnd(p)
    \/ \E p \in Calls : OneTimeout(p)
    \/ RecOnStart
    \/ RecOnEnd
    \/ RecOnError
    \/ RestartFires
    \/ Tick

RaceSpec == Init /\ [][RaceNext]_vars

\* the engine's life cycle and the auto-restart policy alone
LifeNext ==
    \/ \E mode \in Modes : Start(mode)
    \/ \E mode \in Modes : EnableAutoVoice(mode)
    \/ Stop
    \/ \E mode \in Modes : SetMode(mode)
    \/ RecOnStart
    \/ RecOnEnd
    \/ RecOnError
    \/ RestartFires
    \/ Tick

LifeSpec == Init /\ [][LifeNext]_vars

\* the result handler seen from outside: each callback is handed one result
\* and keeps it on record, over a session that is started, switched and
\* stopped but does not end by itself
HandlerNext ==
    \/ \E mode \in Modes : Start(mode)
    \/ Stop
    \/ \E mode \in Modes : SetMode(mode)
    \/ \E r \in Results : OnResult(<<r>>, <<r>>)
    \/ RecOnStart
    \/ WakeTimeoutFires
    \/ Tick

HandlerSpec == Init /\ [][HandlerNext]_vars

\* the result handler handed batches of one or two results, over a session
\* that is started, switched and stopped but does not end by itself
BatchNext ==
    \/ \E mode \in Modes : Start(mode)
    \/ Stop
    \/ \E mode \in Modes : SetMode(mode)
    \/ \E batch \in Batches : RecOnResult(batch)
    \/ RecOnStart
    \/ WakeTimeoutFires
    \/ Tick

BatchSpec == Init /\ [][BatchNext]_vars

\* every source of voice.transcript: the result handler of the continuous
\* session, handed one result at a time, and listenOnceSmart run by a
\* hardware trigger; the session does not end by itself
TranscriptNext ==
    \/ \E mode \in Modes : Start(mode)
    \/ \E r \in Results : RecOnResult(<<r>>)
    \/ RecOnStart
    \/ WakeTimeoutFires
    \/ ListenOnceSmart("keydown")
    \/ SettleFires("keydown")
    \/ \E res \in OneShotResults : OneOnResult("keydown", res)
    \/ OneOnEnd("keydown")
    \/ OneTimeout("keydown")
    \/ Tick

TranscriptSpec == Init /\ [][TranscriptNext]_vars

\* the timers run and time passes: the event loop is never stuck
LifeFair == LifeSpec /\ WF_vars(Tick) /\ WF_vars(RestartFires)

\* ------------------------------------------------------------------ claims
Out == { ev.out[i] : i \in 1..Len(ev.out) }

\* C1: in every active mode (continuous, wake_word, push-to-talk through
\* listenOnceSmart) the same text delivered twice within the debounce window
\* is emitted once: no voice.transcript event repeats the transcript of the
\* event before it within SEND_DEBOUNCE_MS
C1_OneEmissionPerUtterance == \A e \in Out : ~e.repeat

\* a transcript made of the wake word, a separator and a command
IsWakeThenCommand(raw, c) ==
    \E w \in WakeForms : \E sp \in Separators : raw = w \o sp \o c

\* C2 as claimed: in continuous and wake_word modes, in every state of the
\* controller, a transcript emitted for a final result "wake word,
\* separator, command" is exactly the command
C2_StripsWakeWordAlways ==
    \A e \in Out : \A c \in Commands :
        (e.via \in {"continuous", "wake_word"} /\ IsWakeThenCommand(e.raw, c))
            => e.transcript = c

\* C2 amended: it is exactly the command when the result is processed while
\* the controller is not yet activated (the remainder branches, lines 65-74
\* and 97-105); once an earlier result has activated it the text is emitted
\* as it came
C2_StripsWakeWord ==
    \A e \in Out : \A c \in Commands :
        (/\ e.via \in {"continuous", "wake_word"}
         /\ e.branch = "remainder"
         /\ IsWakeThenCommand(e.raw, c))
            => e.transcript = c

C2_Witness ==
    \E e \in Out : /\ e.via = "wake_word"
                   /\ e.branch = "remainder"
                   /\ e.raw = <<"H", "b", ",", " ", "a">>
                   /\ e.transcript = <<"a">>

\* C3: in wake_word mode the timeout of the window emits nothing and closes
\* the window, and a result batch delivered while the window is closed emits
\* nothing for a result that had no wake word before or in it
C3_WindowExpires ==
    [][/\ ev'.op = "wake.timeout" => (ev'.out = <<>> /\ ~wakeWordActive')
       /\ (ev'.op = "rec.onresult" /\ voiceMode = "wake_word"
             /\ ~wakeWordActive)
            => \A i \in 1..Len(ev'.out) : ev'.out[i].heard]_vars

C3_Witness ==
    /\ ev.op = "wake.timeout"
    /\ voiceMode = "wake_word"
    /\ recState = "listening"
    /\ ~wakeWordActive

\* what listenOnce resolves with after the callback op handed it arg
Expected(op, arg) ==
    IF op = "one.onresult" /\ arg # Undefined /\ Trim(arg) # <<>>
    THEN Trim(arg) ELSE Null

\* C4: a call of listenOnce resolves once: the first of its result, error,
\* end, timeout or failing start resolves it, with the trimmed transcript
\* for a non-empty result and with null otherwise, and no later event
\* resolves it again
C4_ResolvesOnce ==
    /\ [](\A p \in Calls :
            /\ call[p].resolved <= 1
            /\ call[p].pc = "listen" => (call[p].resolved = 0 /\ ~call[p].done))
    /\ [][\A p \in Calls :
            (ev'.p = p /\ ev'.op \in {"one.onresult", "one.onerror",
                                      "one.onend", "one.timeout", "settle",
                                      "listenOnce", "listenOnceSmart"})
            => /\ ev'.ret # None
                  => (call[p].resolved = 0 /\ ev'.ret = Expected(ev'.op, ev'.arg))
               /\ (call[p].pc = "listen" /\ ev'.op \in
                      {"one.onresult", "one.onerror", "one.onend",
                       "one.timeout"})
                  => ev'.ret # None]_vars

C4_Witness ==
    /\ ev.op = "one.onend"
    /\ ev.ret = None
    /\ call[ev.p].pc = "idle"

\* C5: listenOnceSmart invoked while the continuous session runs requests
\* its stop before the one-shot session starts, and when the one-shot has
\* resolved start(mode at invocation) leaves continuousEnabled true,
\* userStopped false and the mode as it was
C5_ResumesContinuous ==
    [][\A p \in Calls :
         /\ (ev'.op = "listenOnceSmart" /\ ev'.p = p
               /\ continuousEnabled /\ recognizing)
            => (call'[p].pc = "settle" /\ recState' = "stopping")
         /\ (call[p].wasContinuousActive /\ call[p].pc = "listen"
               /\ call'[p].pc = "idle")
            => (/\ voiceMode' = call[p].currentMode
                /\ continuousEnabled'
                /\ ~userStopped')]_vars

\* C6: the onend delivered after stop(), with no start() since, arms no
\* restart timer and starts no engine
C6_NoRestartAfterStop ==
    [][(ev'.op = "rec.onend" /\ stopLatest)
         => (RestartTimers(timers') = RestartTimers(timers)
               /\ recState' = "idle")]_vars

C6_Witness ==
    /\ ev.op = "rec.onend"
    /\ stopLatest
    /\ rec

\* C7: the continuous session and a one-shot session never listen at the
\* same time
C7_OneSessionAtATime ==
    ~(recState = "listening" /\ \E p \in Calls : call[p].one = "listening")

\* C8: a step that changes the listening flag, the mode or wakeWordActive
\* dispatches a voice.status carrying the new values
C8_StatusFollowsState ==
    [][<<recognizing', voiceMode', wakeWordActive'>> #
          <<recognizing, voiceMode, wakeWordActive>>
         => ev'.status = Status(recognizing', voiceMode', wakeWordActive')]_vars

\* C9: without a speech-recognition primitive no session is constructed or
\* started, no transcript is emitted, recognizing and continuousEnabled stay
\* false, listenOnce and listenOnceSmart resolve null and enableAutoVoice
\* returns false
C9_UnsupportedIsInert ==
    ~supportsSR =>
        /\ ~rec /\ recState = "idle"
        /\ \A p \in Calls : call[p].one = "none" /\ call[p].pc = "idle"
        /\ OnceTimers(timers, "keydown") = {}
        /\ ev.out = <<>>
        /\ ~recognizing /\ ~continuousEnabled
        /\ ev.op \in {"listenOnce", "listenOnceSmart"} => ev.ret = Null
        /\ ev.op = "enableAutoVoice" => ev.ret = <<"false">>

C9_Witness ==
    /\ ~supportsSR
    /\ ev.op = "listenOnceSmart"
    /\ ev.ret = Null
    /\ userStopped

\* C10: when the continuous engine ends or reports an error while
\* continuousEnabled and not userStopped, then, unless stop() is called, a
\* start of the engine is requested by the restart timer
C10_RestartsEventually ==
    (ev.op \in {"rec.onend", "rec.onerror"} /\ continuousEnabled
        /\ ~userStopped)
      ~> (ev.op = "restart" \/ stopLatest)

C10_Witness ==
    /\ ev.op = "restart"
    /\ recState = "starting"
    /\ continuousEnabled /\ ~userStopped

\* C11: a result callback that follows a setMode call emits no transcript
\* for a result that had no wake word in or before it in its batch:
\* activation gathered before the mode was switched (the continuous active
\* flag, the wake-word window) lets no later result through, also when the
\* mode is switched away and back
C11_SetModeDropsActivation ==
    [][(ev.op = "setMode" /\ ev'.op = "rec.onresult")
         => \A i \in 1..Len(ev'.out) : ev'.out[i].heard]_vars

\* C12: at most one wake-word timer is pending, one is pending exactly when
\* wakeWordActive is true, and wakeWordTimeout is then its handle
C12_OneWakeTimer ==
    /\ Cardinality(WakeTimers(timers)) <= 1
    /\ wakeWordActive <=> WakeTimers(timers) # {}
    /\ \A tm \in WakeTimers(timers) : tm.id = wakeWordTimeout

\* the window was opened and then closed by the command that followed
C12_Witness ==
    /\ ev.op = "rec.onresult"
    /\ voiceMode = "wake_word"
    /\ \E e \in Out : e.branch = "command"
    /\ ~wakeWordActive
    /\ WakeTimers(timers) = {}

HasWake(r) == Includes(lowercase(Trim(r.transcript)), lowercase(wakeWord))

\* the text the result handler offers for emission when it is handed the
\* single result r in the present state, <<>> when it offers none
Candidate(r) ==
    LET t == Trim(r.transcript)
    IN  IF ~r.isFinal THEN <<>>
        ELSE IF voiceMode = "wake_word"
        THEN IF HasWake(r) /\ ~wakeWordActive THEN Remainder(t)
             ELSE IF wakeWordActive THEN t ELSE <<>>
        ELSE IF voiceMode = "continuous"
        THEN IF ~active THEN (IF HasWake(r) THEN Remainder(t) ELSE <<>>)
             ELSE t
        ELSE <<>>

\* C13: in the result handler of the continuous engine a non-empty candidate
\* text is emitted exactly when it differs from lastTranscript or more than
\* SEND_DEBOUNCE_MS have passed since lastSentAt; an emission sets
\* lastTranscript to the text and lastSentAt to now, a suppression leaves
\* both as they were
C13_DebounceExact ==
    [][(ev'.op = "rec.onresult" /\ Candidate(ev'.arg[1]) # <<>>)
         => LET c == Candidate(ev'.arg[1])
            IN  IF c # lastTranscript \/ sentAgo > SEND_DEBOUNCE_MS
                THEN /\ Len(ev'.out) = 1
                     /\ ev'.out[1].transcript = c
                     /\ lastTranscript' = c
                     /\ sentAgo' = 0
                ELSE /\ ev'.out = <<>>
                     /\ lastTranscript' = lastTranscript
                     /\ sentAgo' = sentAgo]_vars

\* "Hb, a" was handed in as a final result in wake_word mode no later than
\* the debounce window after "a" had been emitted: the window was opened and
\* closed and the command suppressed
C13_Witness ==
    /\ ev.op = "rec.onresult"
    /\ ev.arg = <<[transcript |-> <<"H", "b", ",", " ", "a">>,
                   isFinal |-> TRUE]>>
    /\ voiceMode = "wake_word"
    /\ ev.status = Status(recognizing, "wake_word", FALSE)
    /\ ev.out = <<>>
    /\ lastTranscript = <<"a">>
    /\ sentAgo <= SEND_DEBOUNCE_MS

\* C15: in continuous mode one result callback emits at most one
\* voice.transcript, and the results after the one that was emitted are not
\* processed: the controller is left deactivated
C15_OneEmissionPerBatch ==
    [][(ev'.op = "rec.onresult" /\ voiceMode = "continuous")
         => (Len(ev'.out) <= 1 /\ (ev'.out # <<>> => ~active'))]_vars

C15_Witness ==
    /\ ev.op = "rec.onresult"
    /\ voiceMode = "continuous"
    /\ Len(ev.out) = 1
    /\ ev.out[1].via = "continuous"
    /\ ev.out[1].raw = <<" ", "A", " ">>
    /\ ~active

\* C16: in continuous mode a result that holds the wake word and yields no
\* remainder (it is interim, or it is final and nothing follows the wake
\* word) leaves the controller active
C16_WakeWordAloneKeepsActive ==
    [][(/\ ev'.op = "rec.onresult"
        /\ voiceMode = "continuous"
        /\ ~active
        /\ HasWake(ev'.arg[1])
        /\ (~ev'.arg[1].isFinal
              \/ Remainder(Trim(ev'.arg[1].transcript)) = <<>>))
         => active']_vars

\* C17: while the mode is off or ptt a result callback of the continuous
\* engine emits nothing and leaves active, wakeWordActive, the wake-word
\* timer, lastTranscript and lastSentAt as they were
C17_OffAndPttIgnoreResults ==
    [][(ev'.op = "rec.onresult" /\ voiceMode \in {"off", "ptt"})
         => /\ ev'.out = <<>>
            /\ active' = active
            /\ wakeWordActive' = wakeWordActive
            /\ wakeWordTimeout' = wakeWordTimeout
            /\ timers' = timers
            /\ lastTranscript' = lastTranscript
            /\ sentAgo' = sentAgo]_vars

\* a final command was handed in while the mode was ptt and the controller
\* still active from continuous mode
C17_Witness ==
    /\ ev.op = "rec.onresult"
    /\ ev.arg = <<[transcript |-> <<"a">>, isFinal |-> TRUE]>>
    /\ voiceMode = "ptt"
    /\ active
    /\ ev.out = <<>>

\* C18: the result callback that follows start(mode) or stop() emits nothing
\* for a final result without the wake word: activation held before the
\* call does not outlive it
C18_ActivationEndsWithSession ==
    [][(/\ ev.op \in {"start", "stop"}
        /\ ev'.op = "rec.onresult"
        /\ ~HasWake(ev'.arg[1]))
         => ev'.out = <<>>]_vars

\* C19: when stop() is called while a listenOnceSmart call waits (settle
\* delay or one-shot session) and neither start() nor enableAutoVoice() is
\* called after it, the completion of that call leaves the mode as it is,
\* continuousEnabled false and userStopped true, and starts no engine
C19_StopOutlivesPushToTalk ==
    [][\A p \in Calls :
         (/\ stopLatest
          /\ call[p].smart
          /\ call[p].pc \in {"settle", "listen"}
          /\ call'[p].pc = "idle")
         => /\ voiceMode' = voiceMode
            /\ ~continuousEnabled'
            /\ userStopped'
            /\ recState' = recState]_vars

\* C20: every voice.transcript event, from the result handler in either mode
\* or from listenOnceSmart, carries a transcript that is not empty and has
\* no whitespace at either end
C20_TranscriptsAreTrimmed ==
    \A e \in Out : /\ e.transcript # <<>>
                   /\ Head(e.transcript) # " "
                   /\ e.transcript[Len(e.transcript)] # " "

\* listenOnceSmart dispatched the transcript of the one-shot result " a "
\* after the result handler had emitted a command
C20_Witness ==
    /\ ev.op = "one.onresult"
    /\ ev.arg = <<" ", "a", " ">>
    /\ \E e \in Out : e.via = "ptt" /\ e.transcript = <<"a">>
    /\ lastTranscript = <<"A">>

====
